---- MODULE Spec2Model ----
(***************************************************************************)
(* Read-only Annoy index in Go (AlisaLC/annoy-go): node decoder, angular   *)
(* metric, node cache, loader and best-first query, modelled from the      *)
(* sources utils (src/unnamed/part_000, lines 1-73), index                 *)
(* (src/unnamed/part_001) and src/distance.go (lines 111-168).             *)
(*                                                                         *)
(* Numbers.  A float32 is represented by its ordered key: the IEEE-754     *)
(* binary32 bit pattern without the sign bit, negated when the sign bit is *)
(* set.  Keys compare as the floats compare (-0 and +0 share key 0), and   *)
(* +Inf is the key 16r7F800000.  The index files and query vectors of the  *)
(* model hold integer-valued components, for which float32 multiplication  *)
(* and addition are exact; the two expressions that round (line 146 and    *)
(* line 152 of distance.go) are tabulated with their binary32 results.     *)
(* NaN never arises from these operands.                                   *)
(***************************************************************************)
EXTENDS Integers, Sequences, FiniteSets, TLC

Nil == "nil"

\* x := e followed by the statements Op that use x: e is evaluated once
With(e, Op(_)) == CHOOSE y \in {Op(x) : x \in {e}} : TRUE

Min(a, b) == IF a < b THEN a ELSE b

Abs(a) == IF a < 0 THEN -a ELSE a

(***************************************************************************)
(* float32 layer                                                           *)
(***************************************************************************)
PosInf == 2139095040

RECURSIVE Log2(_)
Log2(n) == IF n < 2 THEN 0 ELSE 1 + Log2(n \div 2)

\* float32(n) for an integer n, |n| < 2^24 (exactly representable)
F32(n) ==
    With(n, LAMBDA x :
        IF x = 0 THEN 0
        ELSE With(Abs(x), LAMBDA a :
             With(Log2(a), LAMBDA e :
                 LET mag == (e + 127) * (2^23) + (a - 2^e) * (2^(23 - e))
                 IN IF x < 0 THEN -mag ELSE mag)))

\* the integer a key stands for (keys of integer-valued floats only)
F32Int(key) ==
    With(key, LAMBDA x :
        IF x = 0 THEN 0
        ELSE With(Abs(x), LAMBDA mag :
                 LET e == (mag \div (2^23)) - 127
                     v == ((2^23) + (mag % (2^23))) \div (2^(23 - e))
                 IN IF x < 0 THEN -v ELSE v))

F32Mul(a, b) == F32(F32Int(a) * F32Int(b))
F32Add(a, b) == F32(F32Int(a) + F32Int(b))

\* math.Float32frombits(binary.LittleEndian.Uint32(b)) as an ordered key
Float32frombits(b) ==
    LET mag == (b[4] % 128) * (2^24) + b[3] * 65536 + b[2] * 256 + b[1]
    IN IF b[4] >= 128 THEN -mag ELSE mag

\* int32(binary.LittleEndian.Uint32(b)): two's complement, 32 bits
Int32LE(b) ==
    (IF b[4] >= 128 THEN b[4] - 256 ELSE b[4]) * (2^24)
        + b[3] * 65536 + b[2] * 256 + b[1]

\* 2.0 - 2.0*pq/float32(math.Sqrt(float64(ppqq))) in binary32, for the
\* integer operands pq, ppqq (ppqq > 0) the model's vectors produce
DistanceExpr(pq, ppqq) ==
    CASE pq = 0 -> 1073741824
      [] pq * pq = ppqq /\ pq > 0 -> 0
      [] pq * pq = ppqq /\ pq < 0 -> 1082130432
      [] <<pq, ppqq>> = <<-1, 2>> -> 1079673466
      [] <<pq, ppqq>> = <<1, 2>> -> 1058403866
      [] <<pq, ppqq>> = <<-1, 3>> -> 1078584989
      [] <<pq, ppqq>> = <<1, 3>> -> 1062757772
      [] <<pq, ppqq>> = <<-1, 4>> -> 1077936128
      [] <<pq, ppqq>> = <<1, 4>> -> 1065353216
      [] <<pq, ppqq>> = <<-2, 6>> -> 1080591094
      [] <<pq, ppqq>> = <<-1, 6>> -> 1077166459
      [] <<pq, ppqq>> = <<1, 6>> -> 1066892554
      [] <<pq, ppqq>> = <<2, 6>> -> 1052502100
      [] <<pq, ppqq>> = <<-2, 8>> -> 1079673466
      [] <<pq, ppqq>> = <<-1, 8>> -> 1076707645
      [] <<pq, ppqq>> = <<1, 8>> -> 1067810182
      [] <<pq, ppqq>> = <<2, 8>> -> 1058403866
      [] <<pq, ppqq>> = <<-2, 9>> -> 1079334230
      [] <<pq, ppqq>> = <<-1, 9>> -> 1076538027
      [] <<pq, ppqq>> = <<1, 9>> -> 1068149418
      [] <<pq, ppqq>> = <<2, 9>> -> 1059760810
      [] <<pq, ppqq>> = <<-3, 12>> -> 1081006572
      [] <<pq, ppqq>> = <<-2, 12>> -> 1078584989
      [] <<pq, ppqq>> = <<-1, 12>> -> 1076163406
      [] <<pq, ppqq>> = <<1, 12>> -> 1068898659
      [] <<pq, ppqq>> = <<2, 12>> -> 1062757772
      [] <<pq, ppqq>> = <<3, 12>> -> 1049178272
      [] <<pq, ppqq>> = <<-3, 16>> -> 1080033280
      [] <<pq, ppqq>> = <<-2, 16>> -> 1077936128
      [] <<pq, ppqq>> = <<-1, 16>> -> 1075838976
      [] <<pq, ppqq>> = <<1, 16>> -> 1069547520
      [] <<pq, ppqq>> = <<2, 16>> -> 1065353216
      [] <<pq, ppqq>> = <<3, 16>> -> 1056964608

\* float32(math.Sqrt(float64(d))) in binary32 for the keys DistanceExpr yields
SqrtExpr(d) ==
    CASE d = 0 -> 0
      [] d = 1049178272 -> 1057260525
      [] d = 1052502100 -> 1058739821
      [] d = 1056964608 -> 1060439283
      [] d = 1058403866 -> 1061416725
      [] d = 1059760810 -> 1062274539
      [] d = 1062757772 -> 1064001001
      [] d = 1065353216 -> 1065353216
      [] d = 1066892554 -> 1066090486
      [] d = 1067810182 -> 1066502913
      [] d = 1068149418 -> 1066650938
      [] d = 1068898659 -> 1066970110
      [] d = 1069547520 -> 1067238513
      [] d = 1073741824 -> 1068827891
      [] d = 1075838976 -> 1070228162
      [] d = 1076163406 -> 1070431786
      [] d = 1076538027 -> 1070663148
      [] d = 1076707645 -> 1070766626
      [] d = 1077166459 -> 1071042723
      [] d = 1077936128 -> 1071494103
      [] d = 1078584989 -> 1071864014
      [] d = 1079334230 -> 1072280041
      [] d = 1079673466 -> 1072464735
      [] d = 1080033280 -> 1072658257
      [] d = 1080591094 -> 1072953641
      [] d = 1081006572 -> 1073170154
      [] d = 1082130432 -> 1073741824

(***************************************************************************)
(* utils: Pair, PriorityQueue, GetNodePtr, Dot                             *)
(***************************************************************************)
f == 4

Pair(first, second) == [first |-> first, second |-> second]

\* a decoded Node; V = <<>> stands for the nil slice (a decoded V has f > 0
\* elements), Norm = 0 for the zero value
Node(d, c, n, v) == [Descendants |-> d, Children |-> c, Norm |-> n, V |-> v]

NilNode == Node(0, <<>>, 0, <<>>)

\* nodes[lo:hi] of a byte slice, offsets counted from 0
Slice(nodes, lo, hi) == [j \in 1..(hi - lo) |-> nodes[lo + j]]

\* Less with the smaller node index first among equal priorities
LessTieAscending(pq, i, j) ==
    IF pq[i + 1].first = pq[j + 1].first
    THEN pq[i + 1].second < pq[j + 1].second
    ELSE pq[i + 1].first > pq[j + 1].first

\* PriorityQueue.Less on the 0-based positions i, j
Less(pq, i, j) ==
    IF pq[i + 1].first = pq[j + 1].first
    THEN pq[i + 1].second > pq[j + 1].second
    ELSE pq[i + 1].first > pq[j + 1].first

Swap(pq, i, j) == [pq EXCEPT ![i + 1] = pq[j + 1], ![j + 1] = pq[i + 1]]

\* container/heap up(h, j)
RECURSIVE HeapUp(_, _)
HeapUp(pq, j) ==
    LET i == (j - 1) \div 2
    IN IF j <= 0 \/ i = j \/ ~Less(pq, j, i) THEN pq
       ELSE With(Swap(pq, i, j), LAMBDA swapped : HeapUp(swapped, i))

\* container/heap down(h, i, n)
RECURSIVE HeapDown(_, _, _)
HeapDown(pq, i, n) ==
    LET j1 == 2 * i + 1
        j2 == j1 + 1
        j == IF j1 < n /\ j2 < n /\ Less(pq, j2, j1) THEN j2 ELSE j1
    IN IF j1 >= n \/ j1 < 0 THEN pq
       ELSE IF ~Less(pq, j, i) THEN pq
       ELSE With(Swap(pq, i, j), LAMBDA swapped : HeapDown(swapped, j, n))

\* heap.Push(pq, x): PriorityQueue.Push appends, then up(len-1)
HeapPush(pq, x) == With(Append(pq, x), LAMBDA pushed : HeapUp(pushed, Len(pq)))

\* heap.Pop(pq): swap(0, n), down(0, n), PriorityQueue.Pop removes the last
HeapPop(pq) ==
    LET n == Len(pq) - 1
    IN With(Swap(pq, 0, n), LAMBDA swapped :
       With(HeapDown(swapped, 0, n), LAMBDA h :
           [top |-> h[n + 1], pq |-> SubSeq(h, 1, n)]))

\* GetNodePtr that takes every record with descendants > 1 for a bucket
GetNodePtrFromOne(nodes, size, i) ==
    LET arrSize == (size - 12) \div 4
        base == size * i
        word(j) == Slice(nodes, base + 4 * j, base + 4 * j + 4)
        Descendants == Int32LE(word(0))
    IN IF base < 0 \/ base + 12 + 4 * arrSize > Len(nodes)
       THEN [panic |-> TRUE, node |-> NilNode]
       ELSE IF Descendants > 1 /\ Descendants <= arrSize + 2
       THEN [panic |-> FALSE,
             node |-> Node(Descendants,
                           [j \in 1..(arrSize + 2) |-> Int32LE(word(j))],
                           0, <<>>)]
       ELSE [panic |-> FALSE,
             node |-> Node(Descendants,
                           [j \in 1..2 |-> Int32LE(word(j))],
                           0,
                           [j \in 1..arrSize |-> Float32frombits(word(j + 2))])]

\* GetNodePtr that gives a bucket arrSize children
GetNodePtrShortBucket(nodes, size, i) ==
    LET arrSize == (size - 12) \div 4
        base == size * i
        word(j) == Slice(nodes, base + 4 * j, base + 4 * j + 4)
        Descendants == Int32LE(word(0))
    IN IF base < 0 \/ base + 12 + 4 * arrSize > Len(nodes)
       THEN [panic |-> TRUE, node |-> NilNode]
       ELSE IF Descendants > 2 /\ Descendants <= arrSize + 2
       THEN [panic |-> FALSE,
             node |-> Node(Descendants,
                           [j \in 1..arrSize |-> Int32LE(word(j))],
                           0, <<>>)]
       ELSE [panic |-> FALSE,
             node |-> Node(Descendants,
                           [j \in 1..2 |-> Int32LE(word(j))],
                           0,
                           [j \in 1..arrSize |-> Float32frombits(word(j + 2))])]

\* GetNodePtr(nodes, size, i); panic = a slice expression out of range
GetNodePtr(nodes, size, i) ==
    LET arrSize == (size - 12) \div 4
        base == size * i
        word(j) == Slice(nodes, base + 4 * j, base + 4 * j + 4)
        Descendants == Int32LE(word(0))
    IN IF base < 0 \/ base + 12 + 4 * arrSize > Len(nodes)
       THEN [panic |-> TRUE, node |-> NilNode]
       ELSE IF Descendants > 2 /\ Descendants <= arrSize + 2
       THEN [panic |-> FALSE,
             node |-> Node(Descendants,
                           [j \in 1..(arrSize + 2) |-> Int32LE(word(j))],
                           0, <<>>)]
       ELSE [panic |-> FALSE,
             node |-> Node(Descendants,
                           [j \in 1..2 |-> Int32LE(word(j))],
                           0,
                           [j \in 1..arrSize |-> Float32frombits(word(j + 2))])]

\* the offsets into nodes of the bytes GetNodePtr(nodes, size, i) reads for
\* a record whose descendants field is d: every slice expression of lines
\* 48-62, nodes[lo:hi] reading lo..hi-1
BytesRead(size, i, d) ==
    LET arrSize == (size - 12) \div 4
        slice(lo, hi) == lo..(hi - 1)
    IN slice(size * i, size * i + 4)
       \cup (IF d > 2 /\ d <= arrSize + 2
             THEN UNION {slice(size * i + 4 + 4 * j, size * i + 8 + 4 * j) :
                            j \in 0..(arrSize + 1)}
             ELSE UNION {slice(size * i + 4 + 4 * j, size * i + 8 + 4 * j) :
                            j \in 0..1}
                  \cup UNION {slice(size * i + 12 + 4 * j, size * i + 16 + 4 * j) :
                                 j \in 0..(arrSize - 1)})

\* Dot panics (index out of range) when a slice is shorter than f
DotPanics(x, y, n) == n > 0 /\ (Len(x) < n \/ Len(y) < n)

RECURSIVE DotFrom(_, _, _, _, _)
DotFrom(x, y, z, n, s) ==
    IF z >= n THEN s
    ELSE With(F32Add(s, F32Mul(x[z + 1], y[z + 1])), LAMBDA sum :
             DotFrom(x, y, z + 1, n, sum))

Dot(x, y, n) == DotFrom(x, y, 0, n, 0)

(***************************************************************************)
(* distance: Angular                                                       *)
(***************************************************************************)
\* Distance without the fallback for a Norm that was never initialised
DistanceNoFallback(x, y, n) ==
    With(F32Mul(x.Norm, y.Norm), LAMBDA ppqq :
        IF ppqq > 0
        THEN With(F32Int(Dot(x.V, y.V, n)), LAMBDA pq :
             With(F32Int(ppqq), LAMBDA root : DistanceExpr(pq, root)))
        ELSE F32(2))

Distance(x, y, n) ==
    With(IF x.Norm = 0 THEN Dot(x.V, x.V, n) ELSE x.Norm, LAMBDA pp :
    With(IF y.Norm = 0 THEN Dot(y.V, y.V, n) ELSE y.Norm, LAMBDA qq :
    With(F32Mul(pp, qq), LAMBDA ppqq :
        IF ppqq > 0
        THEN With(F32Int(Dot(x.V, y.V, n)), LAMBDA pq :
             With(F32Int(ppqq), LAMBDA root : DistanceExpr(pq, root)))
        ELSE F32(2))))

\* NormalizeDistance without the square root
NormalizeDistanceNoSqrt(distance) ==
    With(distance, LAMBDA d : IF d > 0 THEN d ELSE 0)

NormalizeDistance(distance) ==
    With(distance, LAMBDA d : With(IF d > 0 THEN d ELSE 0, LAMBDA x : SqrtExpr(x)))

\* InitNode that adds the squared norm to the Norm already there
InitNodeAccumulates(node, n) ==
    [node EXCEPT !.Norm = F32Add(node.Norm, Dot(node.V, node.V, n))]

InitNode(node, n) == [node EXCEPT !.Norm = Dot(node.V, node.V, n)]

Margin(node, y, n) == Dot(node.V, y, n)

\* PQDistance that takes the margin whatever the bound
PQDistanceMargin(distance, margin, childNr) ==
    IF childNr = 0 THEN -margin ELSE margin

PQDistance(distance, margin, childNr) ==
    LET m == IF childNr = 0 THEN -margin ELSE margin
    IN Min(distance, m)

(***************************************************************************)
(* Index files.  Records of s = 12 + 4f = 28 bytes, little-endian:         *)
(* descendants, children, vector (README, Load).                           *)
(***************************************************************************)
RECURSIVE Flatten(_)
Flatten(ss) == IF ss = <<>> THEN <<>> ELSE Head(ss) \o Flatten(Tail(ss))

\* the 4 little-endian bytes of the int32 x
LE32(x) ==
    LET y == IF x < 0 THEN -x - 1 ELSE x
        byte(j) == (y \div (256^j)) % 256
    IN [j \in 1..4 |-> IF x < 0 THEN 255 - byte(j - 1) ELSE byte(j - 1)]

\* the 4 little-endian bytes of float32(c), c an integer
FloatLE(c) ==
    LET mag == Abs(F32(c))
    IN <<mag % 256, (mag \div 256) % 256, (mag \div 65536) % 256,
         (mag \div (2^24)) + (IF c < 0 THEN 128 ELSE 0)>>

\* a record with two children and a vector (item or split node)
VectorRecord(d, c0, c1, v) ==
    LE32(d) \o LE32(c0) \o LE32(c1) \o Flatten([j \in 1..Len(v) |-> FloatLE(v[j])])

\* a record whose words after descendants are all children (bucket node)
BucketRecord(d, c) == LE32(d) \o Flatten([j \in 1..Len(c) |-> LE32(c[j])])

\* 7 items, two trees: roots 11 and 12 (descendants 7 > K = 6) split on the
\* first and on the second coordinate, their children 7..10 are buckets
ForestFile ==
    Flatten(<<
        VectorRecord(1, 0, 0, <<1, 0, 0, 0>>),
        VectorRecord(1, 0, 0, <<0, 1, 0, 0>>),
        VectorRecord(1, 0, 0, <<1, 1, 0, 0>>),
        VectorRecord(1, 0, 0, <<-1, 0, 0, 0>>),
        VectorRecord(1, 0, 0, <<0, 0, 1, 0>>),
        VectorRecord(1, 0, 0, <<1, 0, 1, 0>>),
        VectorRecord(1, 0, 0, <<0, -1, 0, 0>>),
        BucketRecord(4, <<1, 3, 4, 6, 0, 0>>),
        BucketRecord(3, <<0, 2, 5, 0, 0, 0>>),
        BucketRecord(5, <<0, 3, 4, 5, 6, 0>>),
        BucketRecord(2, <<1, 2, 0, 0, 0, 0>>),
        VectorRecord(7, 7, 8, <<1, 0, 0, 0>>),
        VectorRecord(7, 9, 10, <<0, 1, 0, 0>>) >>)

\* items [1,0,0,0] and [0,1,0,0] under a single root
TwoFile ==
    Flatten(<<
        VectorRecord(1, 0, 0, <<1, 0, 0, 0>>),
        VectorRecord(1, 0, 0, <<0, 1, 0, 0>>),
        VectorRecord(2, 0, 1, <<1, -1, 0, 0>>) >>)

\* three items under one root that also lists node 3, an all-zero record
\* (descendants 0); the file passes Load's validation
HoleFile ==
    Flatten(<<
        VectorRecord(1, 0, 0, <<1, 1, 0, 0>>),
        VectorRecord(1, 0, 0, <<0, 1, 0, 0>>),
        VectorRecord(1, 0, 0, <<0, 0, 1, 0>>),
        BucketRecord(0, <<0, 0, 0, 0, 0, 0>>),
        BucketRecord(4, <<0, 1, 2, 3, 0, 0>>) >>)

\* one all-zero record: the root has descendants 0
ZeroFile == BucketRecord(0, <<0, 0, 0, 0, 0, 0>>)

EmptyFile == <<>>

\* one record and two more bytes: not a multiple of the record size
RaggedFile == VectorRecord(1, 0, 0, <<1, 0, 0, 0>>) \o <<1, 0>>

\* six items in one root bucket of descendants 6 = K
FullFile ==
    Flatten(<<
        VectorRecord(1, 0, 0, <<1, 0, 0, 0>>),
        VectorRecord(1, 0, 0, <<0, 1, 0, 0>>),
        VectorRecord(1, 0, 0, <<1, 1, 0, 0>>),
        VectorRecord(1, 0, 0, <<-1, 0, 0, 0>>),
        VectorRecord(1, 0, 0, <<0, 0, 1, 0>>),
        VectorRecord(1, 0, 0, <<1, 0, 1, 0>>),
        BucketRecord(6, <<0, 1, 2, 3, 4, 5>>) >>)

\* 8 items, one tree of depth 2: the root 11 splits on the third
\* coordinate into the split node 10 and the item 7, node 10 splits on the
\* first coordinate into the buckets 8 and 9
DeepFile ==
    Flatten(<<
        VectorRecord(1, 0, 0, <<1, 0, 0, 0>>),
        VectorRecord(1, 0, 0, <<0, 1, 0, 0>>),
        VectorRecord(1, 0, 0, <<1, 1, 0, 0>>),
        VectorRecord(1, 0, 0, <<-1, 0, 0, 0>>),
        VectorRecord(1, 0, 0, <<0, 0, 1, 0>>),
        VectorRecord(1, 0, 0, <<1, 0, 1, 0>>),
        VectorRecord(1, 0, 0, <<0, -1, 0, 0>>),
        VectorRecord(1, 0, 0, <<0, 0, -1, 0>>),
        BucketRecord(4, <<1, 3, 4, 6, 0, 0>>),
        BucketRecord(3, <<0, 2, 5, 0, 0, 0>>),
        VectorRecord(7, 8, 9, <<1, 0, 0, 0>>),
        VectorRecord(8, 10, 7, <<0, 0, 1, 0>>) >>)

\* two records of descendants 1: Load takes the last for the only root and
\* 1 for the number of items, so that the root is a node of descendants 1
\* at an index that is not below the number of items
SingleFile ==
    Flatten(<<
        VectorRecord(1, 0, 0, <<1, 0, 0, 0>>),
        VectorRecord(1, 0, 0, <<0, 1, 0, 0>>) >>)

\* two items and a last record whose descendants field is -1 (16rFFFFFFFF)
MinusFile ==
    Flatten(<<
        VectorRecord(1, 0, 0, <<1, 0, 0, 0>>),
        VectorRecord(1, 0, 0, <<0, 1, 0, 0>>),
        VectorRecord(-1, 0, 1, <<1, -1, 0, 0>>) >>)

\* files that exist; "missing" does not (os.OpenFile fails)
FileNames ==
    {"forest", "two", "hole", "zero", "empty", "ragged", "full", "deep", "minus",
     "single"}

\* the files of one session: every file whose records hold descendants >= 0
LoadArgs == (FileNames \ {"minus"}) \cup {"missing"}

FileBytes(name) ==
    CASE name = "forest" -> ForestFile
      [] name = "two" -> TwoFile
      [] name = "hole" -> HoleFile
      [] name = "zero" -> ZeroFile
      [] name = "empty" -> EmptyFile
      [] name = "ragged" -> RaggedFile
      [] name = "full" -> FullFile
      [] name = "deep" -> DeepFile
      [] name = "minus" -> MinusFile
      [] name = "single" -> SingleFile

\* the bytes index.nodes refers to; nil is the empty slice
Bytes(nodes) == IF nodes = Nil THEN <<>> ELSE FileBytes(nodes)

(***************************************************************************)
(* index: AnnoyIndex                                                       *)
(***************************************************************************)
EmptyCache == [i \in {} |-> NilNode]

reinitialize(index) ==
    [index EXCEPT !.fd = Nil, !.nodes = Nil, !.nItems = 0, !.nNodes = 0,
                  !.roots = <<>>]

NewAnnoyIndex(dim) ==
    reinitialize([f |-> dim, s |-> 12 + dim * 4, k |-> (12 + dim * 4 - 4) \div 4,
                  nItems |-> 0, nodes |-> Nil, nNodes |-> 0, roots |-> <<>>,
                  fd |-> Nil, mmap |-> Nil, cache |-> EmptyCache])

\* Unmap and Close succeed
Unload(index) ==
    LET unmapped == IF index.fd # Nil /\ index.mmap # Nil
                    THEN [index EXCEPT !.mmap = Nil] ELSE index
    IN reinitialize(unmapped)

\* getNode that keeps the cache in mapped mode as well
getNodeStoresMapped(index, i) ==
    IF i \in DOMAIN index.cache
    THEN [panic |-> FALSE, node |-> index.cache[i], index |-> index, decoded |-> 0]
    ELSE With(GetNodePtr(Bytes(index.nodes), index.s, i), LAMBDA g :
        LET node == IF g.node.V # <<>> THEN InitNode(g.node, index.f) ELSE g.node
        IN IF g.panic
           THEN [panic |-> TRUE, node |-> NilNode, index |-> index, decoded |-> 1]
           ELSE [panic |-> FALSE, node |-> node,
                 index |-> [index EXCEPT !.cache = (i :> node) @@ index.cache],
                 decoded |-> 1])

\* getNode that never looks a node up in the cache
getNodeAlwaysDecodes(index, i) ==
    With(GetNodePtr(Bytes(index.nodes), index.s, i), LAMBDA g :
        LET node == IF g.node.V # <<>> THEN InitNode(g.node, index.f) ELSE g.node
        IN IF index.mmap # Nil
           THEN [panic |-> g.panic, node |-> g.node, index |-> index, decoded |-> 1]
           ELSE IF g.panic
           THEN [panic |-> TRUE, node |-> NilNode, index |-> index, decoded |-> 1]
           ELSE [panic |-> FALSE, node |-> node,
                 index |-> [index EXCEPT !.cache = (i :> node) @@ index.cache],
                 decoded |-> 1])

\* getNode(i): the node, the index (its cache may have grown), whether
\* GetNodePtr ran, whether it panicked
getNode(index, i) ==
    IF index.mmap = Nil /\ i \in DOMAIN index.cache
    THEN [panic |-> FALSE, node |-> index.cache[i], index |-> index, decoded |-> 0]
    ELSE With(GetNodePtr(Bytes(index.nodes), index.s, i), LAMBDA g :
        LET node == IF g.node.V # <<>> THEN InitNode(g.node, index.f) ELSE g.node
        IN IF index.mmap # Nil
           THEN [panic |-> g.panic, node |-> g.node, index |-> index, decoded |-> 1]
           ELSE IF g.panic
           THEN [panic |-> TRUE, node |-> NilNode, index |-> index, decoded |-> 1]
           ELSE [panic |-> FALSE, node |-> node,
                 index |-> [index EXCEPT !.cache = (i :> node) @@ index.cache],
                 decoded |-> 1])

\* the root scan of Load from node i downward: roots collected so far, m
RECURSIVE RootScan(_, _, _, _)
RootScan(index, i, roots, m) ==
    IF i < 0 THEN [index |-> index, roots |-> roots, m |-> m]
    ELSE With(getNode(index, i), LAMBDA g :
        LET k == g.node.Descendants
        IN IF m = -1 \/ k = m
           THEN RootScan(g.index, i - 1, Append(roots, i), k)
           ELSE [index |-> g.index, roots |-> roots, m |-> m])

\* Load(filename, memory): the error ("" for nil) and the index afterwards
Load(index, filename, memory) ==
    IF filename \notin FileNames
    THEN [err |-> "Unable to open", index |-> index]
    ELSE LET opened == [index EXCEPT !.fd = filename]
             size == Len(FileBytes(filename))
         IN IF size = 0
            THEN [err |-> "Size of file is zero", index |-> opened]
            ELSE IF size % index.s # 0
            THEN [err |-> "Index size is not a multiple of vector size",
                  index |-> opened]
            ELSE LET backed == [opened EXCEPT
                                   !.mmap = IF memory THEN Nil ELSE filename,
                                   !.nodes = filename,
                                   !.nNodes = size \div index.s]
                 IN With(RootScan(backed, (size \div index.s) - 1, <<>>, -1), LAMBDA scan :
                    With(getNode(scan.index, scan.roots[1]), LAMBDA first :
                    With(getNode(first.index, scan.roots[Len(scan.roots)]), LAMBDA last :
                        LET n == Len(scan.roots)
                            roots == IF n > 1 /\ first.node.Children[1]
                                                   = last.node.Children[1]
                                     THEN SubSeq(scan.roots, 1, n - 1) ELSE scan.roots
                            after == IF n > 1 THEN last.index ELSE scan.index
                        IN [err |-> "",
                            index |-> [after EXCEPT !.roots = roots,
                                                    !.nItems = scan.m]])))

\* the file handle and the mapping a call of Load opens: os.OpenFile
\* (line 85) and, past the two size checks, mmap.Map when memory is false
\* (line 109); Nil for none.  Load closes and unmaps nothing
LoadOpens(index, filename, memory) ==
    IF filename \notin FileNames
    THEN [fd |-> Nil, mmap |-> Nil]
    ELSE LET size == Len(FileBytes(filename))
         IN [fd |-> filename,
             mmap |-> IF size # 0 /\ size % index.s = 0 /\ ~memory
                      THEN filename ELSE Nil]

\* the file handle Unload closes and the mapping it unmaps (lines 64-75):
\* those index.fd and index.mmap refer to, and only when index.fd is set
UnloadReleases(index) ==
    IF index.fd # Nil
    THEN [fd |-> index.fd, mmap |-> index.mmap]
    ELSE [fd |-> Nil, mmap |-> Nil]

\* copy(vNode.V, v) into make([]float32, f)
CopyVector(v, n) == [z \in 1..n |-> IF z <= Len(v) THEN v[z] ELSE 0]

\* heap.Push of every root with priority +Inf, in the order of index.roots
RECURSIVE PushRoots(_, _, _)
PushRoots(pq, roots, j) ==
    IF j > Len(roots) THEN pq
    ELSE With(HeapPush(pq, Pair(PosInf, roots[j])), LAMBDA pushed :
             PushRoots(pushed, roots, j + 1))

\* the default budget without the number of trees
SearchBudgetNoTrees(index, n, searchK) == IF searchK = -1 THEN n ELSE searchK

\* the budget the loop runs with
SearchBudget(index, n, searchK) ==
    IF searchK = -1 THEN n * Len(index.roots) ELSE searchK

\* one iteration of the loop of getAllNns; st = [pq, nns, index, panic,
\* decodes, popped], popped the pairs popped so far
LoopStep(st, v) ==
    With(HeapPop(st.pq), LAMBDA pop :
    With(getNode(st.index, pop.top.second), LAMBDA g :
        LET d == pop.top.first
            i == pop.top.second
            nd == g.node
            next == [st EXCEPT !.pq = pop.pq, !.index = g.index,
                               !.decodes = @ + g.decoded,
                               !.popped = Append(@, pop.top)]
        IN IF g.panic THEN [next EXCEPT !.panic = TRUE]
           ELSE IF nd.Descendants = 1 /\ i < st.index.nItems
           THEN [next EXCEPT !.nns = Append(@, i)]
           ELSE IF nd.Descendants <= st.index.k
           THEN IF nd.Descendants < 0 \/ nd.Descendants > Len(nd.Children)
                THEN [next EXCEPT !.panic = TRUE]
                ELSE [next EXCEPT !.nns = @ \o SubSeq(nd.Children, 1, nd.Descendants)]
           ELSE IF DotPanics(nd.V, v, st.index.f)
           THEN [next EXCEPT !.panic = TRUE]
           ELSE With(Margin(nd, v, st.index.f), LAMBDA margin :
                With(HeapPush(pop.pq, Pair(PQDistance(d, margin, 1), nd.Children[2])),
                     LAMBDA one :
                    [next EXCEPT !.pq =
                        HeapPush(one, Pair(PQDistance(d, margin, 0), nd.Children[1]))]))))

\* the loop condition without the budget
LoopRunsToTheEnd(st, searchK) == ~st.panic /\ Len(st.pq) > 0

LoopRuns(st, searchK) == ~st.panic /\ Len(st.nns) < searchK /\ Len(st.pq) > 0

RECURSIVE Loop(_, _, _)
Loop(st, v, searchK) ==
    IF LoopRuns(st, searchK)
    THEN With(LoopStep(st, v), LAMBDA next : Loop(next, v, searchK))
    ELSE st

\* the loop over nnSet: getNode(j) for the test, and again for Distance when
\* the node is a leaf; at(j) is the Pair of candidate j, or "none"
RECURSIVE Candidates(_, _, _, _)
Candidates(st, todo, vNode, at) ==
    IF todo = {} \/ st.panic THEN [st |-> st, at |-> at]
    ELSE With(CHOOSE x \in todo : \A y \in todo : x <= y, LAMBDA j :
         With(getNode(st.index, j), LAMBDA g :
         With(getNode(g.index, j), LAMBDA h :
             LET leaf == ~g.panic /\ g.node.Descendants = 1
                 pair == IF leaf
                         THEN <<Pair(Distance(vNode, h.node, st.index.f), j)>>
                         ELSE <<>>
             IN With([st EXCEPT !.panic = g.panic,
                                !.index = IF leaf THEN h.index ELSE g.index,
                                !.decodes = @ + g.decoded
                                              + (IF leaf THEN h.decoded ELSE 0)],
                     LAMBDA next :
                With(at \o pair, LAMBDA measured :
                    Candidates(next, todo \ {j}, vNode, measured))))))

\* the sort with the comparison reversed
RECURSIVE SortedPrefixesDescending(_, _, _)
SortedPrefixesDescending(nnsDist, S, p) ==
    IF p <= 0 \/ S = {} THEN {<<>>}
    ELSE UNION {
           { <<nnsDist[x]>> \o rest :
                 rest \in With(S \ {x}, LAMBDA T :
                              SortedPrefixesDescending(nnsDist, T, p - 1)) }
           : x \in { y \in S : \A z \in S : ~(nnsDist[z].first > nnsDist[y].first) } }

\* every result sort.Slice can leave in the first p places: the orders of
\* nnsDist that are ascending in first (the sort is not stable, and the
\* entries arrive in map-iteration order); S the positions not yet placed
RECURSIVE SortedPrefixes(_, _, _)
SortedPrefixes(nnsDist, S, p) ==
    IF p <= 0 \/ S = {} THEN {<<>>}
    ELSE UNION {
           { <<nnsDist[x]>> \o rest :
                 rest \in With(S \ {x}, LAMBDA T : SortedPrefixes(nnsDist, T, p - 1)) }
           : x \in { y \in S : \A z \in S : ~(nnsDist[z].first < nnsDist[y].first) } }

\* the two slices returned, with the raw distances they were computed from
Returned(sorted) ==
    [result |-> [j \in 1..Len(sorted) |-> sorted[j].second],
     distances |-> [j \in 1..Len(sorted) |-> NormalizeDistance(sorted[j].first)],
     raw |-> [j \in 1..Len(sorted) |-> sorted[j].first]]

\* the truncation that never cuts down to n
TruncateAll(n, m) == m

\* the truncation that takes a negative n for "no limit"
TruncateNegative(n, m) == IF n > m \/ n < 0 THEN m ELSE n

\* the number of entries returned
Truncate(n, m) == IF n > m THEN m ELSE n

\* getAllNns(v, n, searchK): outcomes is the set of results the call can
\* return (one per order in which equal distances can end up)
getAllNns(index, v, n, searchK) ==
    With(InitNode(Node(0, <<>>, 0, CopyVector(v, index.f)), index.f), LAMBDA vNode :
    With([pq |-> PushRoots(<<>>, index.roots, 1), nns |-> <<>>,
          index |-> index, panic |-> FALSE, decodes |-> 0, popped |-> <<>>],
         LAMBDA start :
    With(Loop(start, v, SearchBudget(index, n, searchK)), LAMBDA looped :
    With({looped.nns[j] : j \in 1..Len(looped.nns)}, LAMBDA nnSet :
    With(Candidates(looped, nnSet, vNode, <<>>), LAMBDA cand :
    With(cand.at \o [j \in 1..(Cardinality(nnSet) - Len(cand.at)) |-> Pair(0, 0)],
         LAMBDA nnsDist :
        LET m == Cardinality(nnSet)
            p == Truncate(n, m)
        IN [panic |-> cand.st.panic,
            index |-> cand.st.index,
            nns |-> looped.nns,
            popped |-> looped.popped,
            decodes |-> cand.st.decodes,
            outcomes |-> IF cand.st.panic THEN {}
                         ELSE {Returned(sorted) :
                                  sorted \in SortedPrefixes(nnsDist, 1..m, p)}]))))))

\* GetNnsByItem(item, n, searchK): m.V[:] of the node is the query
GetNnsByItem(index, item, n, searchK) ==
    With(getNode(index, item), LAMBDA g :
        IF g.panic
        THEN [panic |-> TRUE, index |-> index, nns |-> <<>>, popped |-> <<>>,
              decodes |-> g.decoded, outcomes |-> {}]
        ELSE [getAllNns(g.index, g.node.V, n, searchK) EXCEPT
                 !.decodes = @ + g.decoded])

GetNnsByVector(index, v, n, searchK) == getAllNns(index, v, n, searchK)

GetNItems(index) == index.nItems

GetNTrees(index) == Len(index.roots)

(***************************************************************************)
(* The program: one AnnoyIndex object and the calls made on it.            *)
(*   index    the object                                                   *)
(*   ret      the last call: its arguments and what it returned            *)
(*   ref      a second, newly constructed index that is loaded from the    *)
(*            same file whenever a Load on index succeeds, and is given    *)
(*            the same queries                                             *)
(*   session  the last successful Load: file, mode, whether the call       *)
(*            before it was Unload                                         *)
(*   nLoads, nQueries  calls made so far                                   *)
(*   routine  the goroutines that run queries on index concurrently, each  *)
(*            at a line of getNode                                         *)
(*   races    the kinds of unsynchronised access to index.cache that have  *)
(*            overlapped so far                                            *)
(*   loop     a call of getAllNns run one loop iteration at a time: its    *)
(*            arguments, locals and position                               *)
(*   held     the file handles and the memory mappings the calls on index  *)
(*            opened and did not release yet, each named by its file       *)
(***************************************************************************)
VARIABLES index, ret, ref, session, nLoads, nQueries, routine, races, loop,
          held

vars == <<index, ret, ref, session, nLoads, nQueries, routine, races, loop,
          held>>

MaxLoads == 3
MaxQueries == 1
MaxN == 8
MaxK == 5

\* arguments of the calls
NArgs == {-1, 0, 2, MaxN}
KArgs == {-1, 0, 1, MaxK}
Vectors == {<<1, 0, 0, 0>>, <<0, 1, 1, 0>>, <<1, 1, 0, 0>>}
ItemArgs == {2, 7}

\* a []float32 from integers
Floats(v) == [z \in 1..Len(v) |-> F32(v[z])]

NoCall ==
    [op |-> "NewAnnoyIndex", err |-> "", panic |-> FALSE, file |-> Nil,
     memory |-> FALSE, v |-> <<>>, item |-> -1, n |-> 0, searchK |-> 0,
     result |-> <<>>, distances |-> <<>>, raw |-> <<>>, outcomes |-> {},
     refOutcomes |-> {}, nns |-> <<>>, decodes |-> 0, stored |-> 0]

NoSession == [file |-> Nil, memory |-> FALSE, afterUnload |-> FALSE]

\* q without the first entry equal to x
RECURSIVE Without(_, _)
Without(q, x) ==
    IF q = <<>> THEN <<>>
    ELSE IF Head(q) = x THEN Tail(q)
    ELSE <<Head(q)>> \o Without(Tail(q), x)

\* the process holds nothing
NoneHeld == [fds |-> <<>>, maps |-> <<>>]

\* held after the handle and the mapping of o were opened
Acquire(h, o) ==
    [fds |-> IF o.fd = Nil THEN h.fds ELSE Append(h.fds, o.fd),
     maps |-> IF o.mmap = Nil THEN h.maps ELSE Append(h.maps, o.mmap)]

\* held after the handle and the mapping of o were closed and unmapped
Release(h, o) ==
    [fds |-> IF o.fd = Nil THEN h.fds ELSE Without(h.fds, o.fd),
     maps |-> IF o.mmap = Nil THEN h.maps ELSE Without(h.maps, o.mmap)]

\* a panic ends the program
Running == ~ret.panic

\* the goroutines that may run a query each
Routines == {1, 2}

\* a goroutine: the line of getNode it is at, the nodes its query has yet to
\* fetch (the first is the argument i of the call in progress), the node it
\* decoded, and whether index.cache[i] is that very *Node
Idle == [pc |-> "idle", calls |-> <<>>, node |-> NilNode, mine |-> FALSE]

\* the locals of getAllNns: pq, nns, and the index as the call has left it;
\* popped (the pairs popped so far), decodes and panic are book-keeping
NoLocals ==
    [pq |-> <<>>, nns |-> <<>>, index |-> NewAnnoyIndex(f), panic |-> FALSE,
     decodes |-> 0, popped |-> <<>>]

\* no call of getAllNns in progress
NoLoop ==
    [pc |-> "idle", v |-> <<>>, n |-> 0, searchK |-> 0, budget |-> 0,
     st |-> NoLocals]

Init ==
    /\ index = NewAnnoyIndex(f)
    /\ ref = NewAnnoyIndex(f)
    /\ ret = NoCall
    /\ session = NoSession
    /\ nLoads = 0
    /\ nQueries = 0
    /\ routine = [p \in Routines |-> Idle]
    /\ races = {}
    /\ loop = NoLoop
    /\ held = NoneHeld

\* index.Load(filename, memory); on success ref is constructed anew and
\* loaded from filename with memory = refMemory
LoadCall(filename, memory, refMemory) ==
    /\ Running
    /\ \E r \in {Load(index, filename, memory)} :
          /\ index' = r.index
          /\ ret' = [NoCall EXCEPT !.op = "Load", !.err = r.err,
                                   !.file = filename, !.memory = memory]
          /\ IF r.err = ""
             THEN /\ ref' = Load(NewAnnoyIndex(f), filename, refMemory).index
                  /\ session' = [file |-> filename, memory |-> memory,
                                 afterUnload |-> ret.op = "Unload"]
             ELSE UNCHANGED <<ref, session>>
    /\ held' = Acquire(held, LoadOpens(index, filename, memory))
    /\ nLoads' = nLoads + 1
    /\ UNCHANGED <<nQueries, routine, races, loop>>

UnloadCall ==
    /\ Running
    /\ index' = Unload(index)
    /\ ret' = [NoCall EXCEPT !.op = "Unload"]
    /\ ref' = NewAnnoyIndex(f)
    /\ session' = NoSession
    /\ held' = Release(held, UnloadReleases(index))
    /\ nLoads' = nLoads + 1
    /\ UNCHANGED <<nQueries, routine, races, loop>>

\* the state after a query call that returned r (rr on ref)
Queried(op, v, item, n, searchK, r, rr) ==
    /\ index' = r.index
    /\ ref' = IF rr.panic THEN ref ELSE rr.index
    /\ \E out \in IF r.panic THEN {Returned(<<>>)} ELSE r.outcomes :
          ret' = [NoCall EXCEPT
                     !.op = op, !.panic = r.panic, !.v = v, !.item = item,
                     !.n = n, !.searchK = searchK,
                     !.result = out.result, !.distances = out.distances,
                     !.raw = out.raw, !.outcomes = r.outcomes,
                     !.refOutcomes = rr.outcomes,
                     !.nns = r.nns, !.decodes = r.decodes,
                     !.stored = Cardinality(DOMAIN r.index.cache)
                                  - Cardinality(DOMAIN index.cache)]
    /\ nQueries' = nQueries + 1
    /\ UNCHANGED <<session, nLoads, routine, races, loop, held>>

GetNnsByVectorCall(v, n, searchK) ==
    /\ Running
    /\ nQueries < MaxQueries
    /\ \E r \in {GetNnsByVector(index, Floats(v), n, searchK)},
          rr \in {GetNnsByVector(ref, Floats(v), n, searchK)} :
          Queried("GetNnsByVector", v, -1, n, searchK, r, rr)

GetNnsByItemCall(item, n, searchK) ==
    /\ Running
    /\ nQueries < MaxQueries
    /\ \E r \in {GetNnsByItem(index, item, n, searchK)},
          rr \in {GetNnsByItem(ref, item, n, searchK)} :
          Queried("GetNnsByItem", <<>>, item, n, searchK, r, rr)

\* Load and Unload in any order, ref loaded in the mode of index
LifecycleFiles == {"forest", "two", "minus", "empty", "ragged", "missing"}

Next ==
    \/ \E filename \in LifecycleFiles, memory \in BOOLEAN :
          nLoads < MaxLoads /\ LoadCall(filename, memory, memory)
    \/ nLoads < MaxLoads /\ UnloadCall
    \/ \E v \in {<<1, 0, 0, 0>>}, n \in {2, MaxN}, searchK \in {-1, 1} :
          GetNnsByVectorCall(v, n, searchK)
    \/ \E item \in {2}, n \in {MaxN}, searchK \in {-1} :
          GetNnsByItemCall(item, n, searchK)

Spec == Init /\ [][Next]_vars

\* one session: a Load on the new object, queries, an Unload; ref is
\* loaded in the other mode
SessionNext ==
    \/ \E filename \in LoadArgs, memory \in BOOLEAN :
          nLoads = 0 /\ LoadCall(filename, memory, ~memory)
    \/ nLoads = 1 /\ UnloadCall
    \/ \E v \in Vectors, n \in NArgs, searchK \in KArgs :
          GetNnsByVectorCall(v, n, searchK)
    \/ \E item \in ItemArgs, n \in NArgs, searchK \in KArgs :
          GetNnsByItemCall(item, n, searchK)

SessionSpec == Init /\ [][SessionNext]_vars

(***************************************************************************)
(* Two queries at once on one index, each an own goroutine that runs its   *)
(* calls of getNode line by line.  A write of the map index.cache lasts    *)
(* from StoreBegin to StoreEnd; an access of the map by the other          *)
(* goroutine in between is a data race, after which the Go runtime may     *)
(* end the program (fatal error: concurrent map writes / concurrent map    *)
(* read and map write) or let both accesses go on.                         *)
(***************************************************************************)
\* the getNode calls of the candidate loop (lines 225-230), candidates taken
\* in ascending order: one call, and a second one for a leaf
RECURSIVE CandidateFetches(_, _)
CandidateFetches(ix, todo) ==
    IF todo = {} THEN <<>>
    ELSE With(CHOOSE x \in todo : \A y \in todo : x <= y, LAMBDA j :
             (IF getNode(ix, j).node.Descendants = 1 THEN <<j, j>> ELSE <<j>>)
                 \o CandidateFetches(ix, todo \ {j}))

\* the arguments of the getNode calls of a query that returned r, in order
Fetches(ix, r) ==
    [j \in 1..Len(r.popped) |-> r.popped[j].second]
        \o CandidateFetches(ix, {r.nns[j] : j \in 1..Len(r.nns)})

\* getNode returned: on to the next call of the query
Return(r) ==
    IF Len(r.calls) > 1
    THEN [Idle EXCEPT !.pc = "lookup", !.calls = Tail(r.calls)]
    ELSE [Idle EXCEPT !.pc = "done"]

\* another goroutine is writing the map
Writing(p) == \E q \in Routines \ {p} : routine[q].pc = "storing"

\* the map as a read by p can find it: as it is, or with the entry another
\* goroutine is writing
Seen(p) ==
    {index.cache} \cup
    {(Head(routine[q].calls) :> routine[q].node) @@ index.cache :
        q \in {x \in Routines \ {p} : routine[x].pc = "storing"}}

\* go GetNnsByVector(v, n, searchK)
StartQuery(p, v, n, searchK) ==
    /\ Running
    /\ session.file # Nil
    /\ routine[p].pc = "idle"
    /\ \E r \in {GetNnsByVector(index, Floats(v), n, searchK)} :
          \E calls \in {Fetches(index, r)} :
              /\ ~r.panic
              /\ routine' = [routine EXCEPT ![p] =
                     IF calls = <<>> THEN [Idle EXCEPT !.pc = "done"]
                     ELSE [Idle EXCEPT !.pc = "lookup", !.calls = calls]]
    /\ UNCHANGED <<index, ret, ref, session, nLoads, nQueries, races, loop,
                   held>>

\* getNode lines 170-177: mapped, decode and return; resident, read the
\* map, return a hit, decode on a miss
Lookup(p) ==
    /\ Running
    /\ routine[p].pc = "lookup"
    /\ \E racing \in {index.mmap = Nil /\ Writing(p)} :
          /\ races' = IF racing THEN races \cup {"read-write"} ELSE races
          /\ \E fatal \in IF racing THEN BOOLEAN ELSE {FALSE} :
                IF fatal
                THEN /\ ret' = [ret EXCEPT !.panic = TRUE]
                     /\ UNCHANGED routine
                ELSE /\ UNCHANGED ret
                     /\ \E seen \in Seen(p) :
                        \E g \in {getNode([index EXCEPT !.cache = seen],
                                          Head(routine[p].calls))} :
                           routine' = [routine EXCEPT ![p] =
                              IF g.index.cache = seen THEN Return(@)
                              ELSE [@ EXCEPT !.pc = "store",
                                             !.node = [g.node EXCEPT !.Norm = 0]]]
    /\ UNCHANGED <<index, ref, session, nLoads, nQueries, loop, held>>

\* getNode line 178: the write of the map begins
StoreBegin(p) ==
    /\ Running
    /\ routine[p].pc = "store"
    /\ \E racing \in {Writing(p)} :
          /\ races' = IF racing THEN races \cup {"write-write"} ELSE races
          /\ \E fatal \in IF racing THEN BOOLEAN ELSE {FALSE} :
                IF fatal
                THEN /\ ret' = [ret EXCEPT !.panic = TRUE]
                     /\ UNCHANGED routine
                ELSE /\ UNCHANGED ret
                     /\ routine' = [routine EXCEPT ![p].pc = "storing"]
    /\ UNCHANGED <<index, ref, session, nLoads, nQueries, loop, held>>

\* getNode line 178: the write of the map is done, index.cache[i] is the
\* node of p and no longer that of a goroutine that stored i before
StoreEnd(p) ==
    /\ Running
    /\ routine[p].pc = "storing"
    /\ index' = [index EXCEPT !.cache =
                    (Head(routine[p].calls) :> routine[p].node) @@ @]
    /\ routine' = [q \in Routines |->
          IF q = p THEN [routine[q] EXCEPT !.pc = "init", !.mine = TRUE]
          ELSE IF routine[q].calls # <<>>
                  /\ Head(routine[q].calls) = Head(routine[p].calls)
          THEN [routine[q] EXCEPT !.mine = FALSE]
          ELSE routine[q]]
    /\ UNCHANGED <<ret, ref, session, nLoads, nQueries, races, loop, held>>

\* getNode lines 179-182: InitNode through the pointer, return
InitStep(p) ==
    /\ Running
    /\ routine[p].pc = "init"
    /\ \E node \in {IF routine[p].node.V # <<>>
                     THEN InitNode(routine[p].node, index.f)
                     ELSE routine[p].node} :
          /\ index' = IF routine[p].mine
                       THEN [index EXCEPT !.cache[Head(routine[p].calls)] = node]
                       ELSE index
          /\ routine' = [routine EXCEPT ![p] = Return(@)]
    /\ UNCHANGED <<ret, ref, session, nLoads, nQueries, races, loop, held>>

RaceFiles == {"forest", "two"}

\* one Load, then the goroutines
RaceNext ==
    \/ \E filename \in RaceFiles, memory \in BOOLEAN :
          nLoads = 0 /\ LoadCall(filename, memory, memory)
    \/ \E p \in Routines, v \in {<<1, 0, 0, 0>>, <<0, 1, 1, 0>>}, searchK \in {-1, 1} :
          StartQuery(p, v, 2, searchK)
    \/ \E p \in Routines : Lookup(p)
    \/ \E p \in Routines : StoreBegin(p)
    \/ \E p \in Routines : StoreEnd(p)
    \/ \E p \in Routines : InitStep(p)

RaceSpec == Init /\ [][RaceNext]_vars

(***************************************************************************)
(* One call of GetNnsByVector run step by step: the lines before the loop, *)
(* one iteration of the loop per step, the lines after the loop.           *)
(***************************************************************************)
\* getAllNns lines 186-201: the budget, the roots pushed, nns empty
BeginQuery(v, n, searchK) ==
    /\ Running
    /\ session.file # Nil
    /\ loop.pc = "idle"
    /\ nQueries < MaxQueries
    /\ loop' = [pc |-> "loop", v |-> v, n |-> n, searchK |-> searchK,
                budget |-> SearchBudget(index, n, searchK),
                st |-> [NoLocals EXCEPT
                           !.pq = PushRoots(<<>>, index.roots, 1),
                           !.index = index]]
    /\ UNCHANGED <<index, ret, ref, session, nLoads, nQueries, routine, races,
                   held>>

\* getAllNns lines 202-216: the loop condition holds, one iteration
PopStep ==
    /\ Running
    /\ loop.pc = "loop"
    /\ LoopRuns(loop.st, loop.budget)
    /\ \E st \in {LoopStep(loop.st, Floats(loop.v))} :
          /\ loop' = [loop EXCEPT !.st = st]
          /\ index' = st.index
          /\ ret' = [ret EXCEPT !.panic = st.panic]
    /\ UNCHANGED <<ref, session, nLoads, nQueries, routine, races, held>>

\* getAllNns lines 202, 218-246: the loop condition fails, the candidates
\* are measured, sorted and returned
Finish ==
    /\ Running
    /\ loop.pc = "loop"
    /\ ~LoopRuns(loop.st, loop.budget)
    /\ \E r \in {GetNnsByVector(index, Floats(loop.v), loop.n, loop.searchK)} :
          /\ index' = r.index
          /\ \E out \in IF r.panic THEN {Returned(<<>>)} ELSE r.outcomes :
                ret' = [NoCall EXCEPT
                           !.op = "GetNnsByVector", !.panic = r.panic,
                           !.v = loop.v, !.n = loop.n, !.searchK = loop.searchK,
                           !.result = out.result, !.distances = out.distances,
                           !.raw = out.raw, !.outcomes = r.outcomes,
                           !.refOutcomes = r.outcomes,
                           !.nns = loop.st.nns, !.decodes = loop.st.decodes]
    /\ loop' = [loop EXCEPT !.pc = "done"]
    /\ nQueries' = nQueries + 1
    /\ UNCHANGED <<ref, session, nLoads, routine, races, held>>

LoopFiles == {"forest", "two", "hole", "zero", "full", "deep", "single"}

\* one Load, then one query
LoopNext ==
    \/ \E filename \in LoopFiles, memory \in BOOLEAN :
          nLoads = 0 /\ LoadCall(filename, memory, memory)
    \/ \E v \in Vectors, n \in NArgs, searchK \in KArgs : BeginQuery(v, n, searchK)
    \/ PopStep
    \/ Finish

\* a call that has begun goes on until it returns
LoopSpec == Init /\ [][LoopNext]_vars /\ WF_vars(PopStep) /\ WF_vars(Finish)

(***************************************************************************)
(* Properties                                                              *)
(***************************************************************************)
IsQuery == ret.op \in {"GetNnsByVector", "GetNnsByItem"}

Loaded == session.file # Nil

SeqSet(q) == {q[j] : j \in 1..Len(q)}

\* C1: a query on an index loaded in one mode can return exactly the
\* results the same query can return on an index loaded from the same file
\* in the other mode (SessionSpec loads ref in the mode index is not in)
ModesAgree ==
    (ret.op = "GetNnsByVector" /\ Loaded) =>
        /\ ~ret.panic
        /\ ret.outcomes = ret.refOutcomes

\* a resident-mode query on the forest served partly from the cache, with
\* two results at different positive distances
ModesAgreeWitness ==
    /\ ret.op = "GetNnsByVector" /\ Loaded
    /\ session.file = "forest" /\ session.memory
    /\ ref.mmap # Nil
    /\ ret.stored > 0
    /\ Len(ret.distances) >= 2
    /\ 0 < ret.distances[1] /\ ret.distances[1] < ret.distances[2]

\* the leaf items below node i: what the loop collects with no budget
RECURSIVE LeavesBelow(_, _)
LeavesBelow(ix, i) ==
    LET nd == getNode(ix, i).node
    IN IF nd.Descendants = 1 /\ i < ix.nItems THEN {i}
       ELSE IF nd.Descendants <= ix.k
       THEN {nd.Children[j] : j \in 1..nd.Descendants}
       ELSE LeavesBelow(ix, nd.Children[1]) \cup LeavesBelow(ix, nd.Children[2])

ReachableLeaves(ix) == UNION {LeavesBelow(ix, ix.roots[j]) : j \in 1..Len(ix.roots)}

\* C2 as claimed: for n >= 0 and any budget the two returned sequences have
\* the length min(n, number of unique leaf items reachable from the roots)
LengthIsMinOfReachable ==
    (IsQuery /\ ~ret.panic /\ ret.n >= 0) =>
        /\ Len(ret.result) = Len(ret.distances)
        /\ Len(ret.result) = Min(ret.n, Cardinality(ReachableLeaves(index)))

\* C2 amended: for n >= 0 the two returned sequences have the length
\* min(n, number of distinct candidates the loop collected before the
\* budget was reached or the frontier ran empty)
LengthIsMinOfCandidates ==
    (IsQuery /\ ~ret.panic /\ ret.n >= 0) =>
        /\ Len(ret.result) = Len(ret.distances)
        /\ Len(ret.result) = Min(ret.n, Cardinality(SeqSet(ret.nns)))
        /\ \A out \in ret.outcomes : Len(out.result) = Len(ret.result)

\* the budget stopped the loop with fewer candidates than n and than the
\* reachable leaf items; all of them are returned
LengthWitness ==
    /\ IsQuery /\ ~ret.panic /\ Loaded
    /\ 0 < Len(ret.result) /\ Len(ret.result) < ret.n
    /\ Len(ret.result) < Cardinality(ReachableLeaves(index))

\* C3: the returned distances are non-negative and non-decreasing
DistancesAscending ==
    (IsQuery /\ ~ret.panic) =>
        \A j \in 1..Len(ret.distances) :
            /\ ret.distances[j] >= 0
            /\ j < Len(ret.distances) => ret.distances[j] <= ret.distances[j + 1]

\* three or more results, not all at the same distance
DistancesWitness ==
    /\ IsQuery /\ ~ret.panic /\ Loaded
    /\ Len(ret.distances) >= 3
    /\ ret.distances[1] < ret.distances[Len(ret.distances)]

\* C7: a query with searchK = -1 can return exactly what the same query
\* returns with searchK = n * GetNTrees()
DefaultBudget ==
    (ret.op = "GetNnsByVector" /\ ~ret.panic /\ ret.searchK = -1) =>
        ret.outcomes =
            GetNnsByVector(index, Floats(ret.v), ret.n,
                           ret.n * GetNTrees(index)).outcomes

\* searchK = -1 with n = 2 on the two trees of the forest
DefaultBudgetWitness ==
    /\ ret.op = "GetNnsByVector" /\ ret.searchK = -1 /\ ret.n = 2
    /\ session.file = "forest"
    /\ GetNTrees(index) = 2
    /\ Len(ret.result) = 2

\* C8: GetNnsByVector returns two empty slices and does not panic when
\* n <= 0 or the index holds no items
EmptyForNothing ==
    (ret.op = "GetNnsByVector" /\ (ret.n <= 0 \/ GetNItems(index) = 0)) =>
        /\ ~ret.panic
        /\ ret.result = <<>> /\ ret.distances = <<>>
        /\ ret.outcomes = {Returned(<<>>)}

\* n <= 0 with an explicit budget: the loop did collect candidates
EmptyWitness ==
    /\ ret.op = "GetNnsByVector" /\ ret.n < 0
    /\ Len(ret.nns) > 0
    /\ ret.result = <<>>

\* C9: in resident mode a cached node stays in the cache unchanged, getNode
\* returns it without decoding and without touching the cache, and a query
\* that returns has decoded only the nodes it stored
CacheCoherent ==
    [][ (index.mmap = Nil /\ index'.mmap = Nil /\ session' = session) =>
          /\ \A i \in DOMAIN index.cache :
                /\ i \in DOMAIN index'.cache
                /\ index'.cache[i] = index.cache[i]
                /\ getNode(index', i) =
                      [panic |-> FALSE, node |-> index.cache[i],
                       index |-> index', decoded |-> 0]
          /\ (ret'.op \in {"GetNnsByVector", "GetNnsByItem"} /\ ~ret'.panic) =>
                ret'.decodes = ret'.stored ]_vars

\* a resident query that stored nodes and returned results (each returned
\* item was fetched a second time, from the cache)
CacheWitness ==
    /\ IsQuery /\ Loaded /\ session.memory /\ index.mmap = Nil
    /\ ret.stored > 0 /\ ret.decodes = ret.stored
    /\ Len(ret.result) > 0

\* C10: items [1,0,0,0] and [0,1,0,0] under one root, query [1,0,0,0] with
\* n = 2 and searchK = -1: indices 0, 1 at raw distances 0 and 2,
\* normalized 0 and sqrt(2) (16r3FB504F3)
TwoItemScenario ==
    (ret.op = "GetNnsByVector" /\ session.file = "two"
        /\ ret.v = <<1, 0, 0, 0>> /\ ret.n = 2 /\ ret.searchK = -1) =>
        /\ ret.result = <<0, 1>>
        /\ ret.raw = <<F32(0), F32(2)>>
        /\ ret.distances = <<0, 1068827891>>
        /\ Cardinality(ret.outcomes) = 1

TwoItemWitness ==
    /\ ret.op = "GetNnsByVector" /\ session.file = "two"
    /\ ret.v = <<1, 0, 0, 0>> /\ ret.n = 2 /\ ret.searchK = -1
    /\ GetNTrees(index) = 1 /\ GetNItems(index) = 2
    /\ ret.result = <<0, 1>>

\* C4 as claimed: after Unload and a successful Load, item count, tree
\* count and query results are those of a newly constructed index loaded
\* from the same file in the same mode (Spec loads ref that way)
ReloadMatchesFresh ==
    (Loaded /\ session.afterUnload) =>
        /\ GetNItems(index) = GetNItems(ref)
        /\ GetNTrees(index) = GetNTrees(ref)
        /\ IsQuery => ret.outcomes = ret.refOutcomes

\* C5 as claimed: after Unload the index has no backing bytes, no mapping,
\* no roots, no items and an empty cache
UnloadClears ==
    ret.op = "Unload" =>
        /\ index.nodes = Nil /\ index.mmap = Nil
        /\ index.roots = <<>> /\ index.nItems = 0
        /\ DOMAIN index.cache = {}

\* C6 as claimed: a Load that fails validation leaves the index unloaded
FailedLoadUnloaded ==
    (ret.op = "Load"
        /\ ret.err \in {"Size of file is zero",
                        "Index size is not a multiple of vector size"}) =>
        /\ index.nodes = Nil
        /\ index.roots = <<>> /\ index.nItems = 0

\* the candidates of the last query whose node has descendants == 1
LeafCandidates ==
    {j \in SeqSet(ret.nns) : getNode(index, j).node.Descendants = 1}

\* C11 as claimed: every returned index is a candidate the traversal
\* collected whose node has descendants == 1, no index is returned twice,
\* and candidates with descendants != 1 contribute no entry, so that at
\* most one entry per leaf candidate is returned
OnlyGenuineCandidates ==
    (IsQuery /\ ~ret.panic /\ Loaded) =>
        \A out \in ret.outcomes :
            /\ SeqSet(out.result) \subseteq LeafCandidates
            /\ Cardinality(SeqSet(out.result)) = Len(out.result)
            /\ Len(out.result) <= Cardinality(LeafCandidates)

\* C12 as claimed: the same query on the same loaded index returns one
\* and the same pair of sequences on every execution
QueryDeterministic ==
    (IsQuery /\ ~ret.panic /\ Loaded) => Cardinality(ret.outcomes) = 1

\* the records of the loaded file as GetNodePtr decodes them
Records == {GetNodePtr(Bytes(index.nodes), index.s, i).node : i \in 0..(index.nNodes - 1)}

\* C13 as claimed: a record with 1 < descendants <= K decodes to bucket
\* children and no vector, a record with descendants == 1 or > K to
\* exactly 2 children and a vector of f elements
VariantFromOne ==
    \A nd \in Records :
        /\ (1 < nd.Descendants /\ nd.Descendants <= index.k) =>
              (nd.V = <<>> /\ Len(nd.Children) >= nd.Descendants)
        /\ (nd.Descendants = 1 \/ nd.Descendants > index.k) =>
              (Len(nd.Children) = 2 /\ Len(nd.V) = index.f)

\* C13 amended: a record with 2 < descendants <= K decodes to K children
\* and no vector, every other record (descendants <= 2 or > K) to exactly 2
\* children and a vector of f elements; no node has a vector and more than
\* 2 children
VariantFromTwo ==
    \A nd \in Records :
        /\ (2 < nd.Descendants /\ nd.Descendants <= index.k) =>
              (nd.V = <<>> /\ Len(nd.Children) = index.k)
        /\ (nd.Descendants <= 2 \/ nd.Descendants > index.k) =>
              (Len(nd.Children) = 2 /\ Len(nd.V) = index.f)
        /\ ~(nd.V # <<>> /\ Len(nd.Children) > 2)
        /\ index.k = (index.s - 4) \div 4

\* a resident session that decoded and stored a bucket of descendants 2 with
\* its vector, next to a split node (descendants > K)
VariantWitness ==
    /\ Loaded /\ index.mmap = Nil
    /\ \E i \in DOMAIN index.cache :
          /\ index.cache[i].Descendants = 2
          /\ Len(index.cache[i].V) = index.f
          /\ [index.cache[i] EXCEPT !.Norm = 0] \in Records
    /\ \E i \in DOMAIN index.cache : index.cache[i].Descendants > index.k

\* the indices i, i-1, ... of the records whose descendants field equals m,
\* up to the first record where it differs
RECURSIVE SuffixSharing(_, _, _)
SuffixSharing(nodes, i, m) ==
    IF i < 0 \/ GetNodePtr(nodes, 12 + 4 * f, i).node.Descendants # m THEN <<>>
    ELSE <<i>> \o SuffixSharing(nodes, i - 1, m)

\* C14 as claimed: after a successful Load on a newly constructed index,
\* with m the descendants of the last record, the item count is m and the
\* roots are the maximal run of records ending at the last one whose
\* descendants equal m, in descending order (less the last of them when the
\* duplicate root is dropped)
RootsAreSuffix ==
    (ret.op = "Load" /\ ret.err = "" /\ nLoads = 1) =>
        LET nodes == Bytes(index.nodes)
            m == GetNodePtr(nodes, index.s, index.nNodes - 1).node.Descendants
            suffix == SuffixSharing(nodes, index.nNodes - 1, m)
        IN /\ GetNItems(index) = m
           /\ \/ index.roots = suffix
              \/ Len(suffix) > 1 /\ index.roots = SubSeq(suffix, 1, Len(suffix) - 1)

\* C15: no query step writes the index or overlaps an access of the cache
\* when the index is mapped; in resident mode the goroutines read and write
\* index.cache with nothing that keeps their accesses apart
MappedWritesNothing ==
    [][index.mmap # Nil => (index' = index /\ races' = {})]_vars

\* resident mode: both goroutines missed on the same node and are writing
\* the map at the same time, after one of them read it during a write
RaceWitness ==
    /\ index.mmap = Nil /\ session.file # Nil
    /\ \A p \in Routines : routine[p].pc = "storing"
    /\ Head(routine[1].calls) = Head(routine[2].calls)
    /\ races = {"read-write", "write-write"}

\* the step is one iteration of the loop of getAllNns
Iterates == loop.pc = "loop" /\ loop'.pc = "loop" /\ loop'.st # loop.st

\* the pair the iteration popped
Top == loop'.st.popped[Len(loop'.st.popped)]

\* C16: every pair an iteration pushes has a priority at most the bound
\* the iteration popped, and each bound popped is at most the one popped
\* before it
PrioritiesDescend ==
    [][Iterates =>
        /\ \A e \in SeqSet(loop'.st.pq) \ SeqSet(loop.st.pq) : e.first <= Top.first
        /\ \A j \in 1..Len(loop.st.popped) : Top.first <= loop.st.popped[j].first
      ]_vars

\* a descent of depth 2: the root popped at +Inf, its child split node at a
\* finite bound, and a child of that at a smaller bound still
PrioritiesWitness ==
    /\ loop.pc = "loop" /\ session.file = "deep"
    /\ \E j \in 1..Len(loop.st.popped), k \in 1..Len(loop.st.popped) :
          /\ j < k
          /\ getNode(index, loop.st.popped[j].second).node.Descendants > index.k
          /\ loop.st.popped[k].second
                \in SeqSet(getNode(index, loop.st.popped[j].second).node.Children)
          /\ loop.st.popped[k].first < loop.st.popped[j].first
          /\ loop.st.popped[j].first < PosInf

LoopTerminates ==
    /\ [][Iterates =>
            /\ Len(loop.st.nns) < loop.budget
            /\ loop.st.pq # <<>>
            /\ \A j \in 1..Len(loop.st.popped) : loop.st.popped[j].second # Top.second
       ]_vars
    /\ [](loop.pc = "done" =>
            (Len(loop.st.nns) >= loop.budget \/ loop.st.pq = <<>>))
    /\ [](Len(loop.st.popped) <= index.nNodes)
    /\ (loop.pc = "loop" ~> loop.pc = "done")

\* the loop was left because the budget was reached, with nodes still in
\* the frontier
LoopWitness ==
    /\ loop.pc = "done"
    /\ Len(loop.st.popped) >= 3
    /\ Len(loop.st.nns) >= loop.budget
    /\ loop.st.pq # <<>>

\* the []float32 the last query searched for
QueryVector ==
    IF ret.op = "GetNnsByVector" THEN Floats(ret.v)
    ELSE getNode(index, ret.item).node.V

\* vNode of the last query
QueryNode ==
    InitNode(Node(0, <<>>, 0, CopyVector(QueryVector, index.f)), index.f)

\* C19 as claimed: in both modes every stored node whose vector a query
\* measured carries the norm InitNode computes
InitNodeBeforeUse ==
    (IsQuery /\ ~ret.panic /\ Loaded) =>
        \A c \in LeafCandidates :
            With(getNode(index, c).node, LAMBDA nd :
                nd.Norm = Dot(nd.V, nd.V, index.f))

\* C19: the query node is initialised in both modes and InitNode applied
\* again leaves a node as it is; in resident mode every stored node with a
\* vector carries the norm InitNode computes; in mapped mode the nodes a
\* query measures were never initialised (Norm 0), and the distance
\* computed from them is the distance computed from the initialised node
InitNodeWhereStored ==
    (IsQuery /\ ~ret.panic /\ Loaded) =>
        /\ QueryNode.Norm = Dot(QueryNode.V, QueryNode.V, index.f)
        /\ InitNode(QueryNode, index.f) = QueryNode
        /\ index.mmap = Nil =>
              \A i \in DOMAIN index.cache :
                  index.cache[i].V # <<>> =>
                      /\ index.cache[i].Norm
                            = Dot(index.cache[i].V, index.cache[i].V, index.f)
                      /\ InitNode(index.cache[i], index.f) = index.cache[i]
        /\ index.mmap # Nil =>
              \A c \in LeafCandidates :
                  With(getNode(index, c).node, LAMBDA nd :
                  With(Distance(QueryNode, InitNode(nd, index.f), index.f), LAMBDA d :
                      /\ nd.Norm = 0
                      /\ Distance(QueryNode, nd, index.f) = d
                      /\ Len(ret.result) = Cardinality(SeqSet(ret.nns)) =>
                            \E j \in 1..Len(ret.result) :
                                ret.result[j] = c /\ ret.raw[j] = d))

\* a mapped query on the forest that measured items never initialised and
\* returned two of them, while the resident twin holds initialised nodes
InitNodeWitness ==
    /\ IsQuery /\ ~ret.panic /\ Loaded
    /\ index.mmap # Nil /\ session.file = "forest"
    /\ Len(ret.result) >= 2 /\ ret.raw[2] > 0
    /\ \E c \in LeafCandidates :
          With(getNode(index, c).node, LAMBDA nd :
              nd.Norm = 0 /\ Dot(nd.V, nd.V, index.f) > 0)
    /\ \E i \in DOMAIN ref.cache : ref.cache[i].Norm > 0

\* the node getNode returns for record i of the file: the decode, with the
\* norm InitNode computes when it carries a vector
DecodedRecord(filename, i) ==
    With(GetNodePtr(FileBytes(filename), 12 + f * 4, i).node, LAMBDA node :
        IF node.V # <<>> THEN InitNode(node, f) ELSE node)

\* C20 as claimed: after a successful resident Load of a file, whatever
\* was called before, the roots, the tree count and the item count are the
\* ones a new index gets from that file, and getNode(i) is the decode of
\* record i of that file for every record
ResidentLoadReadsOwnBytes ==
    (ret.op = "Load" /\ ret.err = "" /\ ret.memory) =>
        /\ index.roots = ref.roots
        /\ GetNTrees(index) = GetNTrees(ref)
        /\ GetNItems(index) = GetNItems(ref)
        /\ \A i \in 0..(index.nNodes - 1) :
              getNode(index, i).node = DecodedRecord(ret.file, i)

\* C21 as claimed: after an Unload every handle and every mapping a Load
\* opened is released, and at no time more than one handle and one mapping
\* are outstanding
UnloadReleasesAll ==
    /\ ret.op = "Unload" => held = NoneHeld
    /\ Len(held.fds) <= 1
    /\ Len(held.maps) <= 1

\* the node the iteration fetched
Fetched == getNode(loop.st.index, Top.second).node

\* C22: when an iteration treats a record with 0 <= descendants <= K as a
\* bucket, the decoder materialized K children if 2 < descendants and 2
\* otherwise, Children[:descendants] lies within them and is what the
\* iteration appends; and the bytes the decoder reads for node i of the
\* loaded file all lie inside [i*s, (i+1)*s)
ChildrenWithinDecoded ==
    /\ [][Iterates =>
            With(Fetched, LAMBDA nd :
                (/\ 0 <= nd.Descendants /\ nd.Descendants <= index.k
                 /\ ~(nd.Descendants = 1 /\ Top.second < index.nItems)) =>
                    /\ Len(nd.Children) = IF nd.Descendants > 2 THEN index.k ELSE 2
                    /\ nd.Descendants <= Len(nd.Children)
                    /\ ~loop'.st.panic
                    /\ loop'.st.nns
                         = loop.st.nns \o SubSeq(nd.Children, 1, nd.Descendants))
       ]_vars
    /\ [](Loaded =>
            \A i \in 0..(index.nNodes - 1) :
                With(GetNodePtr(Bytes(index.nodes), index.s, i), LAMBDA g :
                    /\ ~g.panic
                    /\ BytesRead(index.s, i, g.node.Descendants)
                          \subseteq (i * index.s)..((i + 1) * index.s - 1)))

\* the loop popped a record of descendants 2 on the forest, for which the
\* decoder materialized two children, and appended both
ChildrenWitness ==
    /\ loop.pc = "loop" /\ session.file = "forest"
    /\ loop.st.popped # <<>>
    /\ With(getNode(index, loop.st.popped[Len(loop.st.popped)].second).node,
            LAMBDA nd :
                /\ nd.Descendants = 2 /\ Len(nd.Children) = 2
                /\ Len(loop.st.nns) >= 2
                /\ SubSeq(loop.st.nns, Len(loop.st.nns) - 1, Len(loop.st.nns))
                      = nd.Children)

====
